---- MODULE Spec2Model ----
(***************************************************************************)
(* Model of the Titan-Cyclotomic-Prime-Gaps scripts                        *)
(*   scripts/verify_local_obstruction.py  (the obstruction verifier)       *)
(*   scripts/compute_bateman_horn.py      (the Euler product accumulator)  *)
(* for Q(n) = n^47 - (n-1)^47.  Every function of the scripts is a small   *)
(* state machine: one action for its prologue, one per loop iteration and  *)
(* one for its return.  A behaviour is one call of one entry point.        *)
(***************************************************************************)
EXTENDS Integers, Sequences, FiniteSets

VARIABLES
    pc,         \* position in the running function
    fn,         \* the entry point that was called
    fn_arg,     \* the argument the entry point was called with
    stack,      \* the call stack, the running function last
    arg,        \* the bound argument of the running check (p_max, n_max, z, q_max)
    raised,     \* "" or the name of the exception that ended the call
    ret,        \* "unset", or the last returned value: "True", "False", "None", "list", "float"
    sieve_n,    \* sieve_primes: n
    is_prime,   \* sieve_primes: is_prime, as the set of the indices whose entry is True
    i,          \* sieve_primes: i
    primes,     \* the list sieve_primes returned (primes / small_primes of the caller)
    idx,        \* position of the for loop in primes (1-based)
    n,          \* loop variable n of verify_mod47 / verify_no_small_divisors
    p,          \* the prime handled by the last loop iteration
    brute,      \* verify_omega: brute
    theory,     \* verify_omega: theory
    all_ok,     \* verify_omega: all_ok
    q_mod,      \* verify_mod47 / verify_no_small_divisors: q_mod
    bad_primes_set, \* count_bad_moduli: bad_primes_set
    q,          \* count_bad_moduli: q
    all_bad,    \* count_bad_moduli: all_bad of the last q
    bad_count,  \* count_bad_moduli: bad_count
    w,          \* compute_CQ / compute_sieve_weight: w
    C_Q,        \* compute_CQ: the running product, as the sequence of its factors
    n_shield,   \* compute_CQ: n_shield
    n_split,    \* compute_CQ: n_split
    W_Q,        \* compute_sieve_weight: W_Q, as the sequence of its factors
    W_generic,  \* compute_sieve_weight: W_generic, as the sequence of its factors
    ok,         \* main: ok1..ok4, the results assigned so far
    called,     \* main: the checks entered so far, in order
    main_all_ok \* main: all_ok ("unset" until it is computed)

vars == <<pc, fn, fn_arg, stack, arg, raised, ret, sieve_n, is_prime, i, primes, idx,
          n, p, brute, theory, all_ok, q_mod, bad_primes_set, q, all_bad, bad_count,
          w, C_Q, n_shield, n_split, W_Q, W_generic, ok, called, main_all_ok>>

\* The locals of each function, for UNCHANGED.
sieveVars  == <<sieve_n, is_prime, i>>
omegaVars  == <<brute, theory, all_ok>>
scanVars   == <<n, q_mod>>
badVars    == <<bad_primes_set, q, all_bad, bad_count>>
cqVars     == <<w, C_Q, n_shield, n_split, W_Q, W_generic>>
mainVars   == <<ok, called, main_all_ok>>
entryVars  == <<fn, fn_arg>>

(***************************************************************************)
(* Bounds of the model.  main() of the verifier calls the checks with      *)
(* 6299, 100000, 10000 and 50000; the model runs it with the bounds below. *)
(***************************************************************************)
MaxSieveN == 130      \* sieve_primes is called directly with n up to this
MaxPMax   == 290      \* p_max of verify_omega / compute_CQ
MaxNMax47 == 100      \* n_max of verify_mod47
MaxNMaxSD == 290      \* n_max of verify_no_small_divisors
MaxQMax   == 600      \* q_max of count_bad_moduli
MaxZ      == 60       \* z of compute_sieve_weight

(***************************************************************************)
(* Program constants.                                                      *)
(***************************************************************************)
Exponent        == 47     \* the exponent of Q, the ramified prime, the modulus of the split test
SplitOmega      == 46     \* omega at a split prime
SmallPrimeBound == 282    \* sieve bound of verify_no_small_divisors
BadPrimeBound   == 300    \* sieve bound of verify_smallest_bad_prime
ExpectedBad     == 283    \* the literal verify_smallest_bad_prime compares with

\* Arguments outside and at the edge of the valid domain.
EdgeArgs == -2 .. 3

(***************************************************************************)
(* Helpers: Python's int(n**0.5), pow(b, e, m), min, and the stack pop.     *)
(***************************************************************************)
\* int(n**0.5) for n >= 0: the floor of the square root.
ISqrt(m) == CHOOSE r \in 0..m : r * r <= m /\ (r + 1) * (r + 1) > m

\* pow(b, e, m): modular exponentiation by squaring.
RECURSIVE pow(_, _, _)
pow(b, e, m) ==
    IF e = 0 THEN 1 % m
    ELSE IF e % 2 = 1 THEN (b * pow(b, e - 1, m)) % m
    ELSE LET h == pow(b, e \div 2, m) IN (h * h) % m

min(a, b) == IF a < b THEN a ELSE b

Pop(s) == SubSeq(s, 1, Len(s) - 1)

(***************************************************************************)
(* sieve_primes(n)                                                         *)
(***************************************************************************)
\* is_prime = [True] * (n + 1): a list of max(n + 1, 0) entries.
SieveLen(m) == IF m + 1 > 0 THEN m + 1 ELSE 0

\* is_prime[0] = is_prime[1] = False raises IndexError on a list shorter than 2.
SieveRaises(m) == SieveLen(m) < 2

\* The outer loop stopping one short of int(n**0.5).
SieveLimitShort(m) == ISqrt(m) - 1

\* The last i of range(2, int(n**0.5) + 1).
SieveLimit(m) == ISqrt(m)

\* for j in range(i * i, n + 1, i): is_prime[j] = False
Strike(isp, ii, m) ==
    {k \in isp : ~(k >= ii * ii /\ k <= m /\ (k - ii * ii) % ii = 0)}

\* return [i for i in range(2, n + 1) if is_prime[i]]
SieveResult(isp, m) == SelectSeq([k \in 1..(m - 1) |-> k + 1], LAMBDA v : v \in isp)

\* The label a caller of sieve_primes continues at.
LoopOf(f) ==
    CASE f = "verify_omega"              -> "verify_omega_loop"
      [] f = "verify_no_small_divisors"  -> "verify_no_small_divisors_loop"
      [] f = "verify_smallest_bad_prime" -> "verify_smallest_bad_prime_loop"
      [] f = "count_bad_moduli"          -> "count_bad_moduli_setup"
      [] f = "compute_CQ"                -> "compute_CQ_loop"
      [] f = "compute_sieve_weight"      -> "compute_sieve_weight_loop"

\* A call of sieve_primes(m) by the running function.
CallSieve(m) ==
    /\ stack' = Append(stack, "sieve_primes")
    /\ sieve_n' = m
    /\ pc' = "sieve_primes"

\* The running function returns v to its caller: main, or the entry point's caller.
Return(v) ==
    /\ ret' = v
    /\ stack' = Pop(stack)
    /\ pc' = IF Len(stack) = 1 THEN "done" ELSE "main_ret"

\* Lines 18-19: the list is built and its first two entries cleared, or IndexError.
\* No caller catches it: the exception ends the whole call.
SieveStart ==
    /\ pc = "sieve_primes"
    /\ IF SieveRaises(sieve_n)
       THEN /\ raised' = "IndexError"
            /\ stack' = <<>>
            /\ pc' = "done"
            /\ UNCHANGED <<is_prime, i>>
       ELSE /\ is_prime' = {k \in 0..sieve_n : k >= 2}
            /\ i' = 2
            /\ pc' = "sieve_loop"
            /\ UNCHANGED <<raised, stack>>
    /\ UNCHANGED <<entryVars, arg, ret, sieve_n, primes, idx, p, omegaVars, scanVars,
                   badVars, cqVars, mainVars>>

\* Lines 20-23: one iteration of the outer loop.
SieveStep ==
    /\ pc = "sieve_loop"
    /\ i <= SieveLimit(sieve_n)
    /\ is_prime' = IF i \in is_prime THEN Strike(is_prime, i, sieve_n) ELSE is_prime
    /\ i' = i + 1
    /\ UNCHANGED <<pc, entryVars, stack, arg, raised, ret, sieve_n, primes, idx, p,
                   omegaVars, scanVars, badVars, cqVars, mainVars>>

\* Line 24: the list is returned to the caller, or to whoever called the entry point.
SieveReturn ==
    /\ pc = "sieve_loop"
    /\ i > SieveLimit(sieve_n)
    /\ primes' = SieveResult(is_prime, sieve_n)
    /\ is_prime' = {}
    /\ i' = 0
    /\ stack' = Pop(stack)
    /\ IF Len(stack) = 1
       THEN pc' = "done" /\ ret' = "list"
       ELSE pc' = LoopOf(stack[Len(stack) - 1]) /\ UNCHANGED ret
    /\ UNCHANGED <<entryVars, arg, raised, sieve_n, idx, p, omegaVars, scanVars,
                   badVars, cqVars, mainVars>>

(***************************************************************************)
(* omega_brute_force(p), omega_theory(p)                                   *)
(***************************************************************************)
\* Line 31: q = (pow(n, 47, p) - pow((n - 1) % p, 47, p)) % p
brute_q(nn, pr) == (pow(nn, Exponent, pr) - pow((nn - 1) % pr, Exponent, pr)) % pr

\* count of the n in range(p) with q == 0
omega_brute_force(pr) == Cardinality({nn \in 0..(pr - 1) : brute_q(nn, pr) = 0})

\* The split test taken on p + 1 in place of p - 1.
omega_theory_plus(pr) ==
    IF pr = Exponent THEN 0
    ELSE IF (pr + 1) % Exponent = 0 THEN SplitOmega
    ELSE 0

omega_theory(pr) ==
    IF pr = Exponent THEN 0
    ELSE IF (pr - 1) % Exponent = 0 THEN SplitOmega
    ELSE 0

(***************************************************************************)
(* verify_omega(p_max)                                                     *)
(***************************************************************************)
\* Line 49: primes = sieve_primes(p_max); line 54: all_ok = True
VerifyOmegaCall ==
    /\ pc = "verify_omega"
    /\ CallSieve(arg)
    /\ all_ok' = TRUE
    /\ idx' = 1
    /\ UNCHANGED <<entryVars, arg, raised, ret, is_prime, i, primes, p, brute, theory,
                   scanVars, badVars, cqVars, mainVars>>

\* Lines 55-66: one prime of the for loop.
VerifyOmegaStep ==
    /\ pc = "verify_omega_loop"
    /\ idx <= Len(primes)
    /\ p' = primes[idx]
    /\ brute' = omega_brute_force(primes[idx])
    /\ theory' = omega_theory(primes[idx])
    /\ all_ok' = IF brute' # theory' THEN FALSE ELSE all_ok
    /\ idx' = idx + 1
    /\ UNCHANGED <<pc, entryVars, stack, arg, raised, ret, sieveVars, primes, scanVars,
                   badVars, cqVars, mainVars>>

\* Line 71: return all_ok
VerifyOmegaReturn ==
    /\ pc = "verify_omega_loop"
    /\ idx > Len(primes)
    /\ Return(IF all_ok THEN "True" ELSE "False")
    /\ UNCHANGED <<entryVars, arg, raised, sieveVars, primes, idx, p, omegaVars,
                   scanVars, badVars, cqVars, mainVars>>

(***************************************************************************)
(* verify_mod47(n_max)                                                     *)
(***************************************************************************)
\* The residue taken with the degree 46 of the norm form in place of the exponent 47.
mod47_q_degree46(nn) ==
    (pow(nn, SplitOmega, Exponent) - pow((nn - 1) % Exponent, SplitOmega, Exponent)) % Exponent

\* Line 78: q_mod = (pow(n, 47, 47) - pow((n - 1) % 47, 47, 47)) % 47
mod47_q(nn) ==
    (pow(nn, Exponent, Exponent) - pow((nn - 1) % Exponent, Exponent, Exponent)) % Exponent

\* Line 77: the loop starts at n = 0.
VerifyMod47Call ==
    /\ pc = "verify_mod47"
    /\ n' = 0
    /\ pc' = "verify_mod47_loop"
    /\ UNCHANGED <<entryVars, stack, arg, raised, ret, sieveVars, primes, idx, p,
                   omegaVars, q_mod, badVars, cqVars, mainVars>>

\* Lines 77-81: one n of the loop; a residue other than 1 returns False at once.
VerifyMod47Step ==
    /\ pc = "verify_mod47_loop"
    /\ n <= arg
    /\ q_mod' = mod47_q(n)
    /\ IF q_mod' # 1
       THEN Return("False") /\ UNCHANGED n
       ELSE n' = n + 1 /\ UNCHANGED <<pc, stack, ret>>
    /\ UNCHANGED <<entryVars, arg, raised, sieveVars, primes, idx, p, omegaVars,
                   badVars, cqVars, mainVars>>

\* Line 83: return True
VerifyMod47Return ==
    /\ pc = "verify_mod47_loop"
    /\ n > arg
    /\ Return("True")
    /\ UNCHANGED <<entryVars, arg, raised, sieveVars, primes, idx, p, omegaVars,
                   scanVars, badVars, cqVars, mainVars>>

(***************************************************************************)
(* verify_no_small_divisors(n_max)                                         *)
(***************************************************************************)
\* The residue mod p taken with the degree 46 in place of the exponent 47.
small_q_degree46(nn, pr) ==
    (pow(nn, SplitOmega, pr) - pow((nn - 1) % pr, SplitOmega, pr)) % pr

\* Line 94: q_mod = (pow(n, 47, p) - pow((n - 1) % p, 47, p)) % p
small_q(nn, pr) == (pow(nn, Exponent, pr) - pow((nn - 1) % pr, Exponent, pr)) % pr

\* Lines 93-97: the position in small_primes of the first p with q_mod == 0, or 0.
FirstDivisor(nn, ps) ==
    LET hits == {k \in 1..Len(ps) : small_q(nn, ps[k]) = 0}
    IN  IF hits = {} THEN 0 ELSE CHOOSE k \in hits : \A j \in hits : k <= j

\* Line 88: small_primes = sieve_primes(282)
VerifyNoSmallDivisorsCall ==
    /\ pc = "verify_no_small_divisors"
    /\ CallSieve(SmallPrimeBound)
    /\ n' = 2
    /\ UNCHANGED <<entryVars, arg, raised, ret, is_prime, i, primes, idx, p, omegaVars,
                   q_mod, badVars, cqVars, mainVars>>

\* Lines 92-97: one n of the outer loop, against every small prime in turn.
VerifyNoSmallDivisorsStep ==
    /\ pc = "verify_no_small_divisors_loop"
    /\ n <= arg
    /\ LET k == FirstDivisor(n, primes)
       IN  IF k # 0
           THEN /\ p' = primes[k]
                /\ q_mod' = 0
                /\ Return("False")
                /\ UNCHANGED n
           ELSE /\ p' = IF primes = <<>> THEN p ELSE primes[Len(primes)]
                /\ q_mod' = IF primes = <<>> THEN q_mod
                            ELSE small_q(n, primes[Len(primes)])
                /\ n' = n + 1
                /\ UNCHANGED <<pc, stack, ret>>
    /\ UNCHANGED <<entryVars, arg, raised, sieveVars, primes, idx, omegaVars, badVars,
                   cqVars, mainVars>>

\* Line 100: return True
VerifyNoSmallDivisorsReturn ==
    /\ pc = "verify_no_small_divisors_loop"
    /\ n > arg
    /\ Return("True")
    /\ UNCHANGED <<entryVars, arg, raised, sieveVars, primes, idx, p, omegaVars,
                   scanVars, badVars, cqVars, mainVars>>

(***************************************************************************)
(* verify_smallest_bad_prime()                                             *)
(***************************************************************************)
\* The test p % 47 == 0 in place of (p - 1) % 47 == 0.
IsBadPrimeNoOffset(pr) == pr % Exponent = 0

\* Line 108: if (p - 1) % 47 == 0
IsBadPrime(pr) == (pr - 1) % Exponent = 0

\* Line 105: primes = sieve_primes(300)
VerifySmallestBadPrimeCall ==
    /\ pc = "verify_smallest_bad_prime"
    /\ CallSieve(BadPrimeBound)
    /\ idx' = 1
    /\ UNCHANGED <<entryVars, arg, raised, ret, is_prime, i, primes, p, omegaVars,
                   scanVars, badVars, cqVars, mainVars>>

\* Lines 107-116: one prime of the scan; the first bad prime decides the result,
\* and the end of the list returns False (the list up to 300 always holds a bad prime).
VerifySmallestBadPrimeStep ==
    /\ pc = "verify_smallest_bad_prime_loop"
    /\ IF idx > Len(primes)
       THEN Return("False") /\ UNCHANGED <<idx, p>>
       ELSE /\ p' = primes[idx]
            /\ IF IsBadPrime(primes[idx])
               THEN Return(IF primes[idx] = ExpectedBad THEN "True" ELSE "False")
                    /\ UNCHANGED idx
               ELSE idx' = idx + 1 /\ UNCHANGED <<pc, stack, ret>>
    /\ UNCHANGED <<entryVars, arg, raised, sieveVars, primes, omegaVars, scanVars,
                   badVars, cqVars, mainVars>>

(***************************************************************************)
(* count_bad_moduli(q_max)                                                 *)
(***************************************************************************)
\* Lines 131-135: the while loop for one p; <<temp, all_bad>> when it ends.
RECURSIVE DivideOut(_, _, _)
DivideOut(temp, pr, bad) ==
    IF temp % pr # 0 THEN <<temp, TRUE>>
    ELSE IF pr \notin bad THEN <<temp, FALSE>>
    ELSE DivideOut(temp \div pr, pr, bad)

\* Lines 128-137: the for loop over primes from position k on; <<temp, all_bad>>.
RECURSIVE TrialDivide(_, _, _, _)
TrialDivide(temp, k, ps, bad) ==
    IF k > Len(ps) THEN <<temp, TRUE>>
    ELSE IF ps[k] * ps[k] > temp THEN <<temp, TRUE>>
    ELSE LET r == DivideOut(temp, ps[k], bad)
         IN  IF ~r[2] THEN r ELSE TrialDivide(r[1], k + 1, ps, bad)

\* The leftover factor never looked at.
LeftoverIgnored(temp, loop_all_bad, bad) == loop_all_bad

\* Lines 138-139: what is left over after the loop counts as one more prime factor.
Leftover(temp, loop_all_bad, bad) ==
    IF temp > 1 /\ temp \notin bad THEN FALSE ELSE loop_all_bad

\* Lines 126-139: all_bad for one q.
ClassifyModulus(qq, ps, bad) ==
    LET r == TrialDivide(qq, 1, ps, bad)
    IN  Leftover(r[1], r[2], bad)

\* Line 121: primes = sieve_primes(q_max)
CountBadModuliCall ==
    /\ pc = "count_bad_moduli"
    /\ CallSieve(arg)
    /\ UNCHANGED <<entryVars, arg, raised, ret, is_prime, i, primes, idx, p, omegaVars,
                   scanVars, badVars, cqVars, mainVars>>

\* Lines 122-124: bad_primes_set, bad_count = 0, and the loop starts at q = 2.
CountBadModuliSetup ==
    /\ pc = "count_bad_moduli_setup"
    /\ bad_primes_set' = {primes[k] : k \in {j \in 1..Len(primes) : IsBadPrime(primes[j])}}
    /\ bad_count' = 0
    /\ q' = 2
    /\ pc' = "count_bad_moduli_loop"
    /\ UNCHANGED <<entryVars, stack, arg, raised, ret, sieveVars, primes, idx, p,
                   omegaVars, scanVars, all_bad, cqVars, mainVars>>

\* Lines 125-141: one q of the loop.
CountBadModuliStep ==
    /\ pc = "count_bad_moduli_loop"
    /\ q <= arg
    /\ all_bad' = ClassifyModulus(q, primes, bad_primes_set)
    /\ bad_count' = IF all_bad' THEN bad_count + 1 ELSE bad_count
    /\ q' = q + 1
    /\ UNCHANGED <<pc, entryVars, stack, arg, raised, ret, sieveVars, primes, idx, p,
                   omegaVars, scanVars, bad_primes_set, cqVars, mainVars>>

\* Lines 143-148 print the percentages; the function returns None.
CountBadModuliReturn ==
    /\ pc = "count_bad_moduli_loop"
    /\ q > arg
    /\ Return("None")
    /\ UNCHANGED <<entryVars, arg, raised, sieveVars, primes, idx, p, omegaVars,
                   scanVars, badVars, cqVars, mainVars>>

(***************************************************************************)
(* compute_bateman_horn.py: omega_Q, compute_CQ, compute_sieve_weight      *)
(* A float product is kept as the sequence of its factors, each factor as  *)
(* the pair <<numerator, denominator>> of its exact value.                 *)
(***************************************************************************)
omega_Q(pr) ==
    IF pr = Exponent THEN 0
    ELSE IF (pr - 1) % Exponent = 0 THEN SplitOmega
    ELSE 0

\* Line 58: factor = (1 - w / p) / (1 - 1 / p) = (p - w) / (p - 1)
EulerFactor(ww, pr) == <<pr - ww, pr - 1>>

\* The two counters swapped.
CountsAsShieldSwapped(ww) == ww # 0

\* Lines 61-64: which counter the prime goes to.
CountsAsShield(ww) == ww = 0

\* Lines 45-49: primes = sieve_primes(p_max); C_Q = 1.0; n_shield = n_split = 0
ComputeCQCall ==
    /\ pc = "compute_CQ"
    /\ CallSieve(arg)
    /\ C_Q' = <<>>
    /\ n_shield' = 0
    /\ n_split' = 0
    /\ idx' = 1
    /\ UNCHANGED <<entryVars, arg, raised, ret, is_prime, i, primes, p, omegaVars,
                   scanVars, badVars, w, W_Q, W_generic, mainVars>>

\* Lines 56-64: one prime of the for loop.
ComputeCQStep ==
    /\ pc = "compute_CQ_loop"
    /\ idx <= Len(primes)
    /\ p' = primes[idx]
    /\ w' = omega_Q(primes[idx])
    /\ C_Q' = Append(C_Q, EulerFactor(w', primes[idx]))
    /\ IF CountsAsShield(w')
       THEN n_shield' = n_shield + 1 /\ UNCHANGED n_split
       ELSE n_split' = n_split + 1 /\ UNCHANGED n_shield
    /\ idx' = idx + 1
    /\ UNCHANGED <<pc, entryVars, stack, arg, raised, ret, sieveVars, primes, omegaVars,
                   scanVars, badVars, W_Q, W_generic, mainVars>>

\* Line 96: return C_Q
ComputeCQReturn ==
    /\ pc = "compute_CQ_loop"
    /\ idx > Len(primes)
    /\ Return("float")
    /\ UNCHANGED <<entryVars, arg, raised, sieveVars, primes, idx, p, omegaVars,
                   scanVars, badVars, cqVars, mainVars>>

\* Lines 104-107: primes = sieve_primes(z); W_Q = W_generic = 1.0
ComputeSieveWeightCall ==
    /\ pc = "compute_sieve_weight"
    /\ CallSieve(arg)
    /\ W_Q' = <<>>
    /\ W_generic' = <<>>
    /\ idx' = 1
    /\ UNCHANGED <<entryVars, arg, raised, ret, is_prime, i, primes, p, omegaVars,
                   scanVars, badVars, w, C_Q, n_shield, n_split, mainVars>>

\* Lines 108-111: one prime of the for loop.
ComputeSieveWeightStep ==
    /\ pc = "compute_sieve_weight_loop"
    /\ idx <= Len(primes)
    /\ p' = primes[idx]
    /\ w' = omega_Q(primes[idx])
    /\ W_Q' = Append(W_Q, <<primes[idx] - w', primes[idx]>>)
    /\ W_generic' = Append(W_generic,
                           <<primes[idx] - min(SplitOmega, primes[idx] - 1), primes[idx]>>)
    /\ idx' = idx + 1
    /\ UNCHANGED <<pc, entryVars, stack, arg, raised, ret, sieveVars, primes, omegaVars,
                   scanVars, badVars, C_Q, n_shield, n_split, mainVars>>

\* Line 117: return W_Q
ComputeSieveWeightReturn ==
    /\ pc = "compute_sieve_weight_loop"
    /\ idx > Len(primes)
    /\ Return("float")
    /\ UNCHANGED <<entryVars, arg, raised, sieveVars, primes, idx, p, omegaVars,
                   scanVars, badVars, cqVars, mainVars>>

(***************************************************************************)
(* main() of verify_local_obstruction.py                                   *)
(***************************************************************************)
\* main calls the check f with the bound a.
MainCalls(f, a) ==
    /\ called' = Append(called, f)
    /\ stack' = Append(stack, f)
    /\ arg' = a
    /\ pc' = f

\* The overall result with the condition inverted.
OverallInverted(oks) == \E k \in 1..Len(oks) : oks[k] # "True"

\* Line 165: all_ok = ok1 and ok2 and ok3 and ok4
Overall(oks) == \A k \in 1..Len(oks) : oks[k] = "True"

\* Line 158: verify_omega(6299) is called.
MainCallVerifyOmega ==
    /\ pc = "main"
    /\ MainCalls("verify_omega", MaxPMax)
    /\ UNCHANGED <<entryVars, raised, ret, sieveVars, primes, idx, p, omegaVars,
                   scanVars, badVars, cqVars, ok, main_all_ok>>

\* Lines 158-159: ok1 = the result; verify_mod47(100_000) is called.
MainCallVerifyMod47 ==
    /\ pc = "main_ret"
    /\ Len(called) = 1
    /\ ok' = Append(ok, ret)
    /\ MainCalls("verify_mod47", MaxNMax47)
    /\ UNCHANGED <<entryVars, raised, ret, sieveVars, primes, idx, p, omegaVars,
                   scanVars, badVars, cqVars, main_all_ok>>

\* Lines 159-160: ok2 = the result; verify_no_small_divisors(10_000) is called.
MainCallVerifyNoSmallDivisors ==
    /\ pc = "main_ret"
    /\ Len(called) = 2
    /\ ok' = Append(ok, ret)
    /\ MainCalls("verify_no_small_divisors", MaxNMaxSD)
    /\ UNCHANGED <<entryVars, raised, ret, sieveVars, primes, idx, p, omegaVars,
                   scanVars, badVars, cqVars, main_all_ok>>

\* Lines 160-161: ok3 = the result; verify_smallest_bad_prime() is called.
MainCallVerifySmallestBadPrime ==
    /\ pc = "main_ret"
    /\ Len(called) = 3
    /\ ok' = Append(ok, ret)
    /\ MainCalls("verify_smallest_bad_prime", 0)
    /\ UNCHANGED <<entryVars, raised, ret, sieveVars, primes, idx, p, omegaVars,
                   scanVars, badVars, cqVars, main_all_ok>>

\* Lines 161-162: ok4 = the result; count_bad_moduli(50_000) is called.
MainCallCountBadModuli ==
    /\ pc = "main_ret"
    /\ Len(called) = 4
    /\ ok' = Append(ok, ret)
    /\ MainCalls("count_bad_moduli", MaxQMax)
    /\ UNCHANGED <<entryVars, raised, ret, sieveVars, primes, idx, p, omegaVars,
                   scanVars, badVars, cqVars, main_all_ok>>

\* Lines 164-167: the overall result is computed and printed; main returns None.
MainOverall ==
    /\ pc = "main_ret"
    /\ Len(called) = 5
    /\ main_all_ok' = IF Overall(ok) THEN "True" ELSE "False"
    /\ Return("None")
    /\ UNCHANGED <<entryVars, arg, raised, sieveVars, primes, idx, p, omegaVars,
                   scanVars, badVars, cqVars, ok, called>>

(***************************************************************************)
(* The specification: one call of one entry point.                         *)
(***************************************************************************)
EntryPoints ==
    {"sieve_primes", "verify_omega", "verify_mod47", "verify_no_small_divisors",
     "verify_smallest_bad_prime", "count_bad_moduli", "compute_CQ",
     "compute_sieve_weight", "main"}

\* The arguments each entry point is called with.
ArgsOf(f) ==
    CASE f = "sieve_primes"              -> EdgeArgs \cup (0..MaxSieveN)
      [] f = "verify_omega"              -> EdgeArgs \cup {MaxPMax}
      [] f = "verify_mod47"              -> EdgeArgs \cup {MaxNMax47}
      [] f = "verify_no_small_divisors"  -> EdgeArgs \cup {MaxNMaxSD}
      [] f = "verify_smallest_bad_prime" -> {0}
      [] f = "count_bad_moduli"          -> EdgeArgs \cup {MaxQMax}
      [] f = "compute_CQ"                -> EdgeArgs \cup {MaxPMax}
      [] f = "compute_sieve_weight"      -> EdgeArgs \cup {MaxZ}
      [] f = "main"                      -> {0}

\* The state as f(a) is entered.
Entered(f, a) ==
    /\ pc = f
    /\ fn = f
    /\ fn_arg = a
    /\ stack = <<f>>
    /\ arg = a
    /\ raised = ""
    /\ ret = "unset"
    /\ sieve_n = a
    /\ is_prime = {}
    /\ i = 0
    /\ primes = <<>>
    /\ idx = 0
    /\ n = 0
    /\ p = 0
    /\ brute = 0
    /\ theory = 0
    /\ all_ok = TRUE
    /\ q_mod = 0
    /\ bad_primes_set = {}
    /\ q = 0
    /\ all_bad = FALSE
    /\ bad_count = 0
    /\ w = 0
    /\ C_Q = <<>>
    /\ n_shield = 0
    /\ n_split = 0
    /\ W_Q = <<>>
    /\ W_generic = <<>>
    /\ ok = <<>>
    /\ called = <<>>
    /\ main_all_ok = "unset"

Init == \E f \in EntryPoints : \E a \in ArgsOf(f) : Entered(f, a)

Next ==
    \/ SieveStart
    \/ SieveStep
    \/ SieveReturn
    \/ VerifyOmegaCall
    \/ VerifyOmegaStep
    \/ VerifyOmegaReturn
    \/ VerifyMod47Call
    \/ VerifyMod47Step
    \/ VerifyMod47Return
    \/ VerifyNoSmallDivisorsCall
    \/ VerifyNoSmallDivisorsStep
    \/ VerifyNoSmallDivisorsReturn
    \/ VerifySmallestBadPrimeCall
    \/ VerifySmallestBadPrimeStep
    \/ CountBadModuliCall
    \/ CountBadModuliSetup
    \/ CountBadModuliStep
    \/ CountBadModuliReturn
    \/ ComputeCQCall
    \/ ComputeCQStep
    \/ ComputeCQReturn
    \/ ComputeSieveWeightCall
    \/ ComputeSieveWeightStep
    \/ ComputeSieveWeightReturn
    \/ MainCallVerifyOmega
    \/ MainCallVerifyMod47
    \/ MainCallVerifyNoSmallDivisors
    \/ MainCallVerifySmallestBadPrime
    \/ MainCallCountBadModuli
    \/ MainOverall

Spec == Init /\ [][Next]_vars

(***************************************************************************)
(* count_bad_moduli alone, with a bound past 283 * 283, the least modulus  *)
(* whose trial division divides a bad prime out.                           *)
(***************************************************************************)
BigQMax == 80100

InitBad == \E a \in EdgeArgs \cup {MaxQMax, BigQMax} : Entered("count_bad_moduli", a)

NextBad ==
    \/ SieveStart
    \/ SieveStep
    \/ SieveReturn
    \/ CountBadModuliCall
    \/ CountBadModuliSetup
    \/ CountBadModuliStep
    \/ CountBadModuliReturn

SpecBad == InitBad /\ [][NextBad]_vars

(***************************************************************************)
(* Reference notions the properties are stated with.  None of them is      *)
(* taken from the scripts: primality is trial division over every smaller  *)
(* number, a power is the repeated product.                                *)
(***************************************************************************)
IsPrimeRef(v) == v >= 2 /\ \A d \in 2..(v - 1) : v % d # 0

\* The same, with the divisors paired up (d, v / d) so that large v stay cheap.
IsPrimePaired(v) == v >= 2 /\ \A d \in 2..ISqrt(v) : v % d # 0

IsSplitRef(v) == (v - 1) % 47 = 0 /\ v # 47

RECURSIVE PowRef(_, _, _)
PowRef(b, e, m) == IF e = 0 THEN 1 % m ELSE (b * PowRef(b, e - 1, m)) % m

\* (n^47 - (n-1)^47) mod m
QRef(nn, m) == (PowRef(nn % m, 47, m) - PowRef((nn - 1) % m, 47, m)) % m

\* The least prime p with (p - 1) mod 47 = 0, searched below the bound of the scan.
LeastSplitPrime ==
    CHOOSE v \in 2..300 :
        /\ IsPrimeRef(v) /\ (v - 1) % 47 = 0
        /\ \A u \in 2..(v - 1) : ~(IsPrimeRef(u) /\ (u - 1) % 47 = 0)

PrimesBelowLeastSplit == {v \in 2..(LeastSplitPrime - 1) : IsPrimeRef(v)}

Elements(s) == {s[k] : k \in 1..Len(s)}

StrictlyAscending(s) == \A k \in 1..(Len(s) - 1) : s[k] < s[k + 1]

\* Every prime factor of v is a split prime: the divisors of v are d and v / d
\* for the d up to the square root of v.
DivisorsOf(v) ==
    LET low == {d \in 1..ISqrt(v) : v % d = 0}
    IN  low \cup {v \div d : d \in low}

AllFactorsSplit(v) ==
    \A d \in DivisorsOf(v) : d = 1 \/ IsSplitRef(d) \/ ~IsPrimePaired(d)

IsComposite(v) == v >= 4 /\ ~IsPrimePaired(v)

\* A direct call of f has returned or raised.
Finished(f) == fn = f /\ pc = "done"

\* main has assigned the result of its k-th check.
MainHas(k) == fn = "main" /\ Len(ok) >= k

(***************************************************************************)
(* Properties                                                              *)
(***************************************************************************)
\* C1: for every prime p that verify_omega has processed, the brute-force root
\* count equals the theoretical value, which is 46 for a split prime and 0 for
\* every other prime (47 included), and is the number of residues n mod p with
\* n^47 - (n-1)^47 = 0; all_ok stays True and the call returns True.
C1_OmegaAgrees ==
    /\ (pc = "verify_omega_loop" /\ idx > 1) =>
          /\ p = primes[idx - 1]
          /\ brute = theory
          /\ theory = (IF IsSplitRef(p) THEN 46 ELSE 0)
          /\ brute = Cardinality({r \in 0..(p - 1) : QRef(r, p) = 0})
          /\ all_ok
    /\ (Finished("verify_omega") /\ raised = "") => ret = "True"
    /\ MainHas(1) => ok[1] = "True"

\* verify_omega has just compared the two values for the split prime 283.
C1_SplitPrimeCompared ==
    pc = "verify_omega_loop" /\ p = 283 /\ brute = 46 /\ theory = 46 /\ all_ok

\* C2: a direct call sieve_primes(n) with n >= 2 returns exactly the primes of
\* [2, n], in strictly ascending order; sieve_primes(10) is 2, 3, 5, 7.
C2_SieveExact ==
    (Finished("sieve_primes") /\ fn_arg >= 2) =>
          /\ raised = "" /\ ret = "list"
          /\ StrictlyAscending(primes)
          /\ Elements(primes) = {v \in 2..fn_arg : IsPrimeRef(v)}
          /\ (fn_arg = 10 => primes = <<2, 3, 5, 7>>)

\* sieve_primes(121) has returned: 121 is the square of a prime, struck out by
\* the last pass of the outer loop.
C2_SieveReturned ==
    Finished("sieve_primes") /\ fn_arg = 121 /\ ret = "list" /\ Len(primes) = 30

\* C3: a direct call sieve_primes(n) with n = 0 or n = 1 returns the empty
\* sequence and raises nothing.
C3_SieveBelowTwoIsEmpty ==
    (Finished("sieve_primes") /\ fn_arg \in {0, 1}) =>
          raised = "" /\ ret = "list" /\ primes = <<>>

\* C4: every n that verify_mod47 has tested gave the residue 1, the scan goes
\* through the whole of [0, n_max], and the call returns True.
C4_Mod47IsOne ==
    /\ (pc = "verify_mod47_loop" /\ n > 0) => (q_mod = 1 /\ QRef(n - 1, 47) = 1)
    /\ Finished("verify_mod47") =>
          /\ ret = "True"
          /\ n = (IF fn_arg >= 0 THEN fn_arg + 1 ELSE 0)
    /\ MainHas(2) => ok[2] = "True"

\* verify_mod47 has scanned through a multiple of 47 and returned True.
C4_ScannedPastMultiple ==
    Finished("verify_mod47") /\ fn_arg >= 94 /\ n = fn_arg + 1 /\ ret = "True" /\ q_mod = 1

\* C5: verify_no_small_divisors scans exactly the primes below the least prime
\* congruent to 1 mod 47, which is 283; for every n it has tested, Q(n) is
\* nonzero modulo every one of them; the call never reports a divisor and
\* returns True.
C5_NoSmallDivisor ==
    /\ LeastSplitPrime = 283
    /\ pc = "verify_no_small_divisors_loop" =>
          /\ StrictlyAscending(primes)
          /\ Elements(primes) = PrimesBelowLeastSplit
          /\ n > 2 => /\ q_mod # 0
                      /\ \A v \in PrimesBelowLeastSplit : QRef(n - 1, v) # 0
    /\ Finished("verify_no_small_divisors") =>
          (raised = "" /\ ret = "True" /\ (fn_arg >= 2 => n = fn_arg + 1))
    /\ MainHas(3) => ok[3] = "True"

\* verify_no_small_divisors has tested an n beyond 283 against the last small prime.
C5_ScannedAllResidues ==
    /\ Finished("verify_no_small_divisors") /\ ret = "True"
    /\ n > 2 + 283 /\ p = 281 /\ q_mod # 0

\* C6: verify_smallest_bad_prime passes over every sieved prime p with
\* (p - 1) mod 47 # 0, among them 47 itself, selects 283 as the first prime with
\* (p - 1) mod 47 = 0, which is the least such prime, and returns True.
C6_SmallestBadPrime ==
    /\ (pc = "verify_smallest_bad_prime_loop" /\ idx > 1) =>
          (p = primes[idx - 1] /\ (p - 1) % 47 # 0)
    /\ Finished("verify_smallest_bad_prime") =>
          /\ ret = "True"
          /\ p = 283 /\ p = LeastSplitPrime /\ p = primes[idx]
          /\ \E k \in 1..(idx - 1) : primes[k] = 47
          /\ \A k \in 1..(idx - 1) : (primes[k] - 1) % 47 # 0
    /\ MainHas(4) => ok[4] = "True"

\* verify_smallest_bad_prime has stopped at 283 and returned True.
C6_StoppedAt283 ==
    Finished("verify_smallest_bad_prime") /\ ret = "True" /\ p = 283 /\ idx = 61

\* C7: a direct call of compute_CQ or verify_omega with p_max below 2, or of
\* compute_sieve_weight, verify_mod47, verify_no_small_divisors or
\* count_bad_moduli with a bound that is not positive, ends in an error and
\* returns no ordinary result.
C7_OutOfDomainRaises ==
    \/ pc # "done"
    \/ ~ \/ fn \in {"compute_CQ", "verify_omega"} /\ fn_arg < 2
         \/ fn \in {"compute_sieve_weight", "verify_mod47", "verify_no_small_divisors",
                     "count_bad_moduli"} /\ fn_arg <= 0
    \/ raised # "" /\ ret = "unset"

LabelOf(v) ==
    IF v = 47 THEN "ramified" ELSE IF (v - 1) % 47 = 0 THEN "split" ELSE "shield"

Labelled(s, k, labels) == Cardinality({j \in 1..k : LabelOf(s[j]) \in labels})

\* C10 (as stated): compute_CQ keeps n_shield + n_split equal to the number of
\* primes processed, n_split equal to the number labelled split and n_shield
\* equal to the number labelled shield.
C10_CountsMatchLabels ==
    (fn = "compute_CQ" /\ pc \in {"compute_CQ_loop", "done"} /\ raised = "") =>
          /\ n_shield + n_split = idx - 1
          /\ n_split = Labelled(primes, idx - 1, {"split"})
          /\ n_shield = Labelled(primes, idx - 1, {"shield"})

\* C10 (amended): compute_CQ keeps n_shield + n_split equal to the number of
\* primes processed, n_split equal to the number labelled split, and n_shield
\* equal to the number of primes with omega = 0: those labelled shield and the
\* ramified prime 47.
C10_ShieldCountsRamified ==
    (fn = "compute_CQ" /\ pc \in {"compute_CQ_loop", "done"} /\ raised = "") =>
          /\ n_shield + n_split = idx - 1
          /\ n_split = Labelled(primes, idx - 1, {"split"})
          /\ n_shield = Labelled(primes, idx - 1, {"shield", "ramified"})

\* compute_CQ has returned after processing 47 and the split prime 283.
C10_ProcessedAllLabels ==
    /\ Finished("compute_CQ") /\ ret = "float"
    /\ idx = Len(primes) + 1 /\ idx > 1 /\ p = 283
    /\ n_split = 1 /\ n_shield = idx - 2

\* C9 (as stated): count_bad_moduli(q_max) with q_max >= 2 classifies q as bad
\* exactly when q is composite with every prime factor congruent to 1 mod 47,
\* and bad_count is the number of such q in [2, q_max].
C9_CountsCompositeOnly ==
    /\ (pc = "count_bad_moduli_loop" /\ q > 2) =>
          all_bad = (IsComposite(q - 1) /\ AllFactorsSplit(q - 1))
    /\ (Finished("count_bad_moduli") /\ fn_arg >= 2) =>
          bad_count = Cardinality({v \in 2..fn_arg : IsComposite(v) /\ AllFactorsSplit(v)})

\* C9 (amended): count_bad_moduli(q_max) with q_max >= 2 classifies q as bad
\* exactly when every prime factor of q is congruent to 1 mod 47, whether q is
\* prime or composite, as the full factorisation of q would, and bad_count is
\* the number of such q in [2, q_max].
C9_CountsAllSplitModuli ==
    /\ (pc = "count_bad_moduli_loop" /\ q > 2) => all_bad = AllFactorsSplit(q - 1)
    /\ (Finished("count_bad_moduli") /\ fn_arg >= 2) =>
          /\ raised = "" /\ ret = "None"
          /\ bad_count = Cardinality({v \in 2..fn_arg : AllFactorsSplit(v)})

\* count_bad_moduli has classified the prime 283, the least modulus whose prime
\* factors are all congruent to 1 mod 47, as bad and counted it.
C9_CountedPrime283 ==
    pc = "count_bad_moduli_loop" /\ q - 1 = 283 /\ all_bad /\ bad_count = 1
====
